---- MODULE Spec2Model ----
(***************************************************************************)
(* Region ("arena") allocator of fonghou/C-Makefile.                       *)
(*                                                                         *)
(* Spec      models src/include/arena.h: arena_init, arena_alloc, ArenaOOM,*)
(*           arena_alloc_init, arena_free, Push/slice_grow, astrclone,     *)
(*           astrconcat and astrfmt on one arena over one byte buffer.     *)
(* Spec011   models the arena_alloc / slice_grow of src/unnamed/part_011,  *)
(*           which returns NULL when no checkpoint is set.                 *)
(* Spec013   models newarena / getscratch / arena_alloc of                 *)
(*           src/unnamed/part_013: a parent arena bumping upwards and its  *)
(*           scratch child bumping downwards from the parent's end.        *)
(*                                                                         *)
(* Addresses are integers, NULL is 0.  Memory is a function from address   *)
(* to byte.  The target is a small one (2-byte pointers, max_align_t       *)
(* aligned to 4) so that a jump buffer and a slice growth fit a buffer     *)
(* that TLC can enumerate; the arithmetic is the one of the source.        *)
(***************************************************************************)
EXTENDS Integers, Sequences, FiniteSets, TLC

VARIABLES buf,      \* the address of the buffer given to arena_init
          beg,      \* Arena.beg: the frontier
          end,      \* Arena.end: the limit
          jmpbuf,   \* Arena.jmpbuf: address of the jump buffer, 0 = NULL
          cpBeg,    \* value of beg when setjmp ran in ArenaOOM
          mem,      \* the bytes of the address space
          pc,       \* "run", or "trapped" after a failed Assert
          blocks,   \* <<ptr, nbytes>> of the blocks handed out by arena_alloc
          slice,    \* the caller's slice header [data, len, cap]
          str,      \* the caller's string view [data, len]
          left,     \* operations of each kind the caller will still make
          last,     \* the last operation: its arguments and its result
          scr,      \* part_013: the scratch child [live, end, oomjmp, cpEnd]
          it        \* part_012: the iterator of astr_split / astr_split_by_char

vars == <<buf, beg, end, jmpbuf, cpBeg, mem, pc, blocks, slice, str, left, last, scr,
          it>>

----------------------------------------------------------------------------
(* Target and bounds *)

NULL == 0
WordBits == 16                 \* width of uintptr_t
PtrSize == 2                   \* sizeof(void *)
JBLEN == 5                     \* _JBLEN
MAX_ALIGN == 4                 \* _Alignof(max_align_t)

Base == 8                      \* address of the buffer given to arena_init
ArenaSize == 28                \* its size in bytes
ExtBase == 1                   \* storage outside the arena (literals, stack)
ExtSize == 6
Dirty == 7                     \* a byte of the buffer nobody has written yet
JBMark == 9                    \* a byte written by setjmp

Guard == 4                     \* addresses modelled past the end of the buffer

MaxOps == 2                    \* operations in one behaviour of Spec
MaxAllocs == 2                 \* arena_alloc calls in one behaviour of SpecCore
MaxAllocs013 == 2              \* arena_alloc calls in one behaviour of Spec013
MaxPushes011 == 5              \* Push calls in one behaviour of Spec011
MaxOOMs == 1                   \* ArenaOOM checkpoints in one behaviour of SpecCore
MaxPushes == 9                 \* Push calls in one behaviour of SpecSlice
MaxCount == 1                  \* largest small element count requested
MaxFmt == 2                    \* longest output of astrfmt
MaxPushesMove == 6             \* Push calls in one behaviour of SpecMove
MaxStrOps == 3                 \* string operations in one behaviour of SpecStr
MaxInput == 5                  \* longest string split, "a,b,,c" apart
MaxStack == 2                  \* elements of an array the caller wraps in a slice
MaxView == 2                   \* elements of a view made by Slice()

ElemSize == 2                  \* sizeof(*slice->data)
ElemAlign == 2                 \* _Alignof(*slice->data)
Vals == {1, 2}                 \* byte values a caller stores in an element
FmtByte == 5                   \* a byte produced by vsnprintf
Comma == 44                    \* ','
LetterA == 97                  \* 'a'
LetterB == 98                  \* 'b'
LetterC == 99                  \* 'c'

Addr == 0 .. (Base + 1 + ArenaSize + Guard)
Bases == {Base, Base + 1}
\* (sizeof(t), _Alignof(t)) of the element types allocated, and a request
\* whose size is no multiple of its alignment
Types == {<<1, 1>>, <<1, 4>>, <<3, 4>>}
FlagSets == SUBSET {"NO_INIT", "OOM_NULL"}

----------------------------------------------------------------------------
(* C arithmetic *)

Word == 2 ^ WordBits

\* -(uintptr_t)x
UNeg(x) == (Word - (x % Word)) % Word

RECURSIVE BitAnd(_, _)
BitAnd(a, b) ==
  IF a = 0 \/ b = 0 THEN 0
  ELSE (a % 2) * (b % 2) + 2 * BitAnd(a \div 2, b \div 2)

\* isize division truncates toward zero
CDiv(a, b) == IF a >= 0 THEN a \div b ELSE -((-a) \div b)

\* memset(p, 0, n)
Zeroed(m, p, n) == [a \in DOMAIN m |-> IF a >= p /\ a < p + n THEN 0 ELSE m[a]]

\* memset-like store of one value into n bytes (an element written by the caller)
Filled(m, p, n, v) == [a \in DOMAIN m |-> IF a >= p /\ a < p + n THEN v ELSE m[a]]

\* memmove(dst, src, n): overlap-safe copy
Moved(m, dst, src, n) ==
  [a \in DOMAIN m |-> IF a >= dst /\ a < dst + n THEN m[src + (a - dst)] ELSE m[a]]

----------------------------------------------------------------------------
(* arena_alloc of src/include/arena.h *)

\* isize padding = -(uintptr_t)current & (align - 1);
Padding(current, align) == BitAnd(UNeg(current), align - 1)

\* IsOOM with the padding added to the free bytes instead of taken from them
IsOOMSignSlip(b, e, size, align, count) ==
  count >= CDiv((e - b) + Padding(b, align), size)

\* while (count >= (avail - padding) / size) goto handle_oom;
IsOOM(b, e, size, align, count) ==
  count >= CDiv((e - b) - Padding(b, align), size)

\* ArenaAlloc aligning the frontier before it checks the capacity
ArenaAllocPadFirst(b, e, j, size, align, count, flags) ==
  LET padding == Padding(b, align)
      total_size == size * count
  IN  IF ~IsOOM(b, e, size, align, count)
      THEN [res |-> "ok", ptr |-> b + padding, beg |-> b + padding + total_size,
            pad |-> padding, total |-> total_size]
      ELSE [res |-> IF "OOM_NULL" \in flags THEN "null"
                    ELSE IF j = NULL THEN "trap"
                    ELSE "unwound",
            ptr |-> NULL, beg |-> b + padding, pad |-> padding, total |-> total_size]

\* What arena_alloc does to an arena [beg |-> b, end |-> e, jmpbuf |-> j]:
\* res "ok" (ptr returned, frontier advanced), "null" (NULL returned),
\* "unwound" (longjmp to the checkpoint) or "trap" (Assert failed).
ArenaAlloc(b, e, j, size, align, count, flags) ==
  LET padding == Padding(b, align)
      total_size == size * count
  IN  IF ~IsOOM(b, e, size, align, count)
      THEN [res |-> "ok", ptr |-> b + padding, beg |-> b + padding + total_size,
            pad |-> padding, total |-> total_size]
      ELSE [res |-> IF "OOM_NULL" \in flags THEN "null"
                    ELSE IF j = NULL THEN "trap"
                    ELSE "unwound",
            ptr |-> NULL, beg |-> b, pad |-> padding, total |-> total_size]

\* AllocMem clearing from the old frontier, padding included
AllocMemFromFrontier(m, r, flags) ==
  IF r.res = "ok" /\ "NO_INIT" \notin flags
  THEN Zeroed(m, r.ptr - r.pad, r.pad + r.total) ELSE m

\* The bytes after a successful arena_alloc: memset unless NO_INIT.
AllocMem(m, r, flags) ==
  IF r.res = "ok" /\ "NO_INIT" \notin flags THEN Zeroed(m, r.ptr, r.total) ELSE m

\* BegAfter of an allocator that bumps the frontier before it finds the OOM
BegAfterLeak(r) == IF r.res = "unwound" THEN {r.beg + r.total} ELSE {r.beg}

\* The frontier where execution continues after the call.  After longjmp the
\* Arena object, changed since setjmp and not volatile, is indeterminate: it
\* holds the value it had at setjmp or the one it had at longjmp.
BegAfter(r) == IF r.res = "unwound" THEN {r.beg, cpBeg} ELSE {r.beg}

Fresh == [live |-> FALSE, end |-> NULL, oomjmp |-> NULL, cpEnd |-> NULL]
NoSlice == [data |-> NULL, len |-> 0, cap |-> 0]
NoStr == [data |-> NULL, len |-> 0]
NoIter == [kind |-> "none"]

\* The element counts a caller asks for: small ones, and the ones around the
\* largest count the free bytes [b, e) can hold.
Counts(b, e, size, align) ==
  LET fit == CDiv((e - b) - BitAnd(UNeg(b), align - 1), size)
  IN  (0 .. MaxCount) \cup ({fit - 1, fit} \cap Nat)

\* Bytes outside the arena: the characters of the string literals
InExt(a) == a >= ExtBase /\ a < ExtBase + ExtSize
InitByte(a, fill) == IF a >= Base /\ ~InExt(a) THEN fill ELSE IF InExt(a) THEN 10 + a ELSE 0
LitA == [data |-> ExtBase, len |-> 2]
LitB == [data |-> ExtBase + 2, len |-> 1]

\* arena_init(mem, size)
ArenaInitState(m0, size) ==
  [beg |-> m0, end |-> IF m0 # NULL THEN m0 + size ELSE 0, jmpbuf |-> NULL]

\* The operations a caller will make, by kind and in total
Budget(ops, alloc, oom, free, push, strop, init) ==
  [ops |-> ops, alloc |-> alloc, oom |-> oom, free |-> free, push |-> push,
   strop |-> strop, init |-> init]

Take(kind) == left.ops > 0 /\ left[kind] > 0
Taken(kind) == [left EXCEPT !.ops = @ - 1, ![kind] = @ - 1]

\* The state after arena_init over a buffer of ArenaSize bytes
InitWith(budget) ==
  /\ buf \in Bases
  /\ beg = ArenaInitState(buf, ArenaSize).beg
  /\ end = ArenaInitState(buf, ArenaSize).end
  /\ jmpbuf = ArenaInitState(buf, ArenaSize).jmpbuf
  /\ cpBeg = NULL
  /\ \E fill \in {0, Dirty} : mem = [a \in Addr |-> InitByte(a, fill)]
  /\ pc = "run"
  /\ blocks = {}
  /\ slice = NoSlice
  /\ str = NoStr
  /\ left = budget
  /\ last = [op |-> "init", res |-> "ok"]
  /\ scr = Fresh
  /\ it = NoIter

Init == InitWith(Budget(MaxOps, MaxOps, MaxOps, MaxOps, MaxOps, MaxOps, MaxOps))

\* What is observed of a call of arena_alloc: its result, the block, whether
\* the block was zeroed (a success) and whether OOM_NULL was passed (a failure)
CallOf(name, b, e, r, align, flags) ==
  [op |-> name, res |-> r.res, ptr |-> r.ptr, pad |-> r.pad, total |-> r.total,
   align |-> align, was |-> b, lim |-> e,
   zero |-> (r.res = "ok" /\ "NO_INIT" \notin flags),
   soft |-> (r.res # "ok" /\ "OOM_NULL" \in flags)]

\* p = arena_alloc(arena, size, align, count, flags), also New(arena, t, n, flags)
Alloc(size, align, count, flags) ==
  /\ pc = "run"
  /\ Take("alloc")
  /\ LET r == ArenaAlloc(beg, end, jmpbuf, size, align, count, flags)
     IN  /\ beg' \in BegAfter(r)
         /\ mem' = AllocMem(mem, r, flags)
         /\ pc' = IF r.res = "trap" THEN "trapped" ELSE "run"
         /\ blocks' = IF r.res = "ok" THEN blocks \cup {<<r.ptr, r.total>>} ELSE blocks
         /\ last' = CallOf("alloc", beg, end, r, align, flags)
  /\ left' = Taken("alloc")
  /\ UNCHANGED <<buf, end, jmpbuf, cpBeg, slice, str, scr, it>>

\* ArenaOOM that keeps the jump buffer it had when the arena cannot hold a new
\* one
ArenaOOMKeepsBuffer ==
  /\ pc = "run"
  /\ Take("oom")
  /\ LET r == ArenaAlloc(beg, end, jmpbuf, PtrSize, PtrSize, JBLEN, {"OOM_NULL"})
     IN  /\ beg' = r.beg
         /\ jmpbuf' = IF r.res = "ok" THEN r.ptr ELSE jmpbuf
         /\ cpBeg' = IF r.res = "ok" THEN r.beg ELSE cpBeg
         /\ mem' = IF r.res = "ok" THEN Filled(mem, r.ptr, r.total, JBMark) ELSE mem
         /\ last' = CallOf("ArenaOOM", beg, end, r, PtrSize, {"OOM_NULL"})
  /\ left' = Taken("oom")
  /\ UNCHANGED <<buf, end, pc, blocks, slice, str, scr, it>>

\* ArenaOOM(arena): the jump buffer is taken from the arena, then setjmp
ArenaOOM ==
  /\ pc = "run"
  /\ Take("oom")
  /\ LET r == ArenaAlloc(beg, end, jmpbuf, PtrSize, PtrSize, JBLEN, {"OOM_NULL"})
     IN  /\ beg' = r.beg
         /\ jmpbuf' = r.ptr
         /\ cpBeg' = IF r.res = "ok" THEN r.beg ELSE cpBeg
         /\ mem' = IF r.res = "ok" THEN Filled(mem, r.ptr, r.total, JBMark) ELSE mem
         /\ last' = CallOf("ArenaOOM", beg, end, r, PtrSize, {"OOM_NULL"})
  /\ left' = Taken("oom")
  /\ UNCHANGED <<buf, end, pc, blocks, slice, str, scr, it>>

\* New(arena, t, n, initptr): arena_alloc_init copies n elements from initptr
AllocInit(size, count, initptr) ==
  /\ pc = "run"
  /\ Take("alloc")
  /\ IF initptr = NULL
     THEN /\ pc' = "trapped"
          /\ last' = [op |-> "alloc_init", res |-> "trap"]
          /\ UNCHANGED <<beg, mem, blocks>>
     ELSE LET r == ArenaAlloc(beg, end, jmpbuf, size, 1, count, {"NO_INIT"})
          IN  /\ beg' \in BegAfter(r)
              /\ mem' = IF r.res = "ok" THEN Moved(mem, r.ptr, initptr, r.total) ELSE mem
              /\ pc' = IF r.res = "trap" THEN "trapped" ELSE "run"
              /\ blocks' = IF r.res = "ok" THEN blocks \cup {<<r.ptr, r.total>>}
                           ELSE blocks
              /\ last' = CallOf("alloc_init", beg, end, r, 1, {"NO_INIT"})
  /\ left' = Taken("alloc")
  /\ UNCHANGED <<buf, end, jmpbuf, cpBeg, slice, str, scr, it>>

\* FreeBeg that retracts to any block below the frontier, whatever its size
FreeBegAnyBlock(b, ptr, size) ==
  IF ptr = NULL THEN b
  ELSE IF ptr <= b THEN ptr
  ELSE b

\* arena_free(ptr, size, arena)
FreeBeg(b, ptr, size) ==
  IF ptr = NULL THEN b
  ELSE IF ptr = (b - size) % Word THEN ptr
  ELSE b

ArenaFree(ptr, size) ==
  /\ pc = "run"
  /\ Take("free")
  /\ beg' = FreeBeg(beg, ptr, size)
  /\ last' = [op |-> "free", res |-> "ok", ptr |-> ptr, size |-> size]
  /\ left' = Taken("free")
  /\ UNCHANGED <<buf, end, jmpbuf, cpBeg, mem, pc, blocks, slice, str, scr, it>>

\* SliceGrow whose tip test forgets the element size
SliceGrowNoScale(b, e, j, m, s, size, align) ==
  LET grow == MAX_ALIGN
      atTip == s.data = (b - s.cap) % Word
      newcap == IF s.cap = 0 THEN s.len + grow
                ELSE IF atTip THEN s.cap + grow
                ELSE s.cap + (s.cap \div 2)
      r == IF s.cap = 0 THEN ArenaAlloc(b, e, j, size, align, newcap, {"NO_INIT"})
           ELSE IF atTip THEN ArenaAlloc(b, e, j, size, 1, grow, {"NO_INIT"})
           ELSE ArenaAlloc(b, e, j, size, align, newcap, {"NO_INIT"})
  IN  IF r.res # "ok"
      THEN [res |-> r.res, slice |-> s, beg |-> b, mem |-> m, branch |-> "none"]
      ELSE IF s.cap # 0 /\ atTip
      THEN [res |-> "ok", slice |-> [s EXCEPT !.cap = newcap], beg |-> r.beg,
            mem |-> m, branch |-> "inplace"]
      ELSE [res |-> "ok", slice |-> [data |-> r.ptr, len |-> s.len, cap |-> newcap],
            beg |-> r.beg, mem |-> Moved(m, r.ptr, s.data, size * s.len),
            branch |-> IF s.cap = 0 THEN "first" ELSE "moved"]

\* SliceGrow whose first allocation copies len bytes, not len elements
SliceGrowFirstBytes(b, e, j, m, s, size, align) ==
  LET grow == MAX_ALIGN
      atTip == s.data = (b - size * s.cap) % Word
      newcap == IF s.cap = 0 THEN s.len + grow
                ELSE IF atTip THEN s.cap + grow
                ELSE s.cap + (s.cap \div 2)
      r == IF s.cap = 0 THEN ArenaAlloc(b, e, j, size, align, newcap, {"NO_INIT"})
           ELSE IF atTip THEN ArenaAlloc(b, e, j, size, 1, grow, {"NO_INIT"})
           ELSE ArenaAlloc(b, e, j, size, align, newcap, {"NO_INIT"})
  IN  IF r.res # "ok"
      THEN [res |-> r.res, slice |-> s, beg |-> b, mem |-> m, branch |-> "none"]
      ELSE IF s.cap # 0 /\ atTip
      THEN [res |-> "ok", slice |-> [s EXCEPT !.cap = newcap], beg |-> r.beg,
            mem |-> m, branch |-> "inplace"]
      ELSE [res |-> "ok", slice |-> [data |-> r.ptr, len |-> s.len, cap |-> newcap],
            beg |-> r.beg,
            mem |-> Moved(m, r.ptr, s.data, IF s.cap = 0 THEN s.len ELSE size * s.len),
            branch |-> IF s.cap = 0 THEN "first" ELSE "moved"]

\* SliceGrow that rebinds data to the new storage without moving the elements
SliceGrowNoMove(b, e, j, m, s, size, align) ==
  LET grow == MAX_ALIGN
      atTip == s.data = (b - size * s.cap) % Word
      newcap == IF s.cap = 0 THEN s.len + grow
                ELSE IF atTip THEN s.cap + grow
                ELSE s.cap + (s.cap \div 2)
      r == IF s.cap = 0 THEN ArenaAlloc(b, e, j, size, align, newcap, {"NO_INIT"})
           ELSE IF atTip THEN ArenaAlloc(b, e, j, size, 1, grow, {"NO_INIT"})
           ELSE ArenaAlloc(b, e, j, size, align, newcap, {"NO_INIT"})
  IN  IF r.res # "ok"
      THEN [res |-> r.res, slice |-> s, beg |-> b, mem |-> m, branch |-> "none"]
      ELSE IF s.cap # 0 /\ atTip
      THEN [res |-> "ok", slice |-> [s EXCEPT !.cap = newcap], beg |-> r.beg,
            mem |-> m, branch |-> "inplace"]
      ELSE [res |-> "ok", slice |-> [data |-> r.ptr, len |-> s.len, cap |-> newcap],
            beg |-> r.beg,
            mem |-> IF s.cap = 0 THEN Moved(m, r.ptr, s.data, size * s.len) ELSE m,
            branch |-> IF s.cap = 0 THEN "first" ELSE "moved"]

\* slice_grow(slice, size, align, arena) on the header s, with the arena at
\* [b, e) and the bytes m: the new header, frontier and bytes, or the failure
\* of its arena_alloc (the header is written back only at the end).
SliceGrow(b, e, j, m, s, size, align) ==
  LET grow == MAX_ALIGN
      atTip == s.data = (b - size * s.cap) % Word
      newcap == IF s.cap = 0 THEN s.len + grow
                ELSE IF atTip THEN s.cap + grow
                ELSE s.cap + (s.cap \div 2)
      r == IF s.cap = 0 THEN ArenaAlloc(b, e, j, size, align, newcap, {"NO_INIT"})
           ELSE IF atTip THEN ArenaAlloc(b, e, j, size, 1, grow, {"NO_INIT"})
           ELSE ArenaAlloc(b, e, j, size, align, newcap, {"NO_INIT"})
  IN  IF r.res # "ok"
      THEN [res |-> r.res, slice |-> s, beg |-> b, mem |-> m, branch |-> "none"]
      ELSE IF s.cap # 0 /\ atTip
      THEN [res |-> "ok", slice |-> [s EXCEPT !.cap = newcap], beg |-> r.beg,
            mem |-> m, branch |-> "inplace"]
      ELSE [res |-> "ok", slice |-> [data |-> r.ptr, len |-> s.len, cap |-> newcap],
            beg |-> r.beg, mem |-> Moved(m, r.ptr, s.data, size * s.len),
            branch |-> IF s.cap = 0 THEN "first" ELSE "moved"]

\* The three Asserts of Push
PushAsserts(s) == s.len >= 0 /\ s.cap >= 0 /\ ~(s.len = 0 /\ s.data # NULL)

\* *Push(&slice, arena) = v
Push(v) ==
  /\ pc = "run"
  /\ Take("push")
  /\ LET full == slice.len >= slice.cap
         g == IF full THEN SliceGrow(beg, end, jmpbuf, mem, slice, ElemSize, ElemAlign)
              ELSE [res |-> "ok", slice |-> slice, beg |-> beg, mem |-> mem,
                    branch |-> "none"]
         slot == g.slice.data + ElemSize * g.slice.len
     IN  IF ~PushAsserts(slice)
         THEN /\ pc' = "trapped"
              /\ last' = [op |-> "push", res |-> "trap", grew |-> FALSE,
                          branch |-> "none", ptr |-> NULL, old |-> slice]
              /\ UNCHANGED <<beg, mem, slice>>
         ELSE /\ beg' \in BegAfter(g)
              /\ pc' = IF g.res = "trap" THEN "trapped" ELSE "run"
              /\ slice' = IF g.res = "ok" THEN [g.slice EXCEPT !.len = @ + 1] ELSE slice
              /\ mem' = IF g.res = "ok" THEN Filled(g.mem, slot, ElemSize, v) ELSE mem
              /\ last' = [op |-> "push", res |-> g.res, grew |-> full,
                          branch |-> g.branch,
                          ptr |-> IF g.res = "ok" THEN slot ELSE NULL, old |-> slice]
  /\ left' = Taken("push")
  /\ UNCHANGED <<buf, end, jmpbuf, cpBeg, blocks, str, scr, it>>

\* StrClone without the test for a string that already ends at the frontier
StrCloneAlways(b, e, j, m, s) ==
  IF s.len = 0
  THEN [res |-> "ok", str |-> s, beg |-> b, mem |-> m]
  ELSE LET r == ArenaAlloc(b, e, j, 1, 1, s.len, {"NO_INIT"})
       IN  IF r.res = "ok"
           THEN [res |-> "ok", str |-> [data |-> r.ptr, len |-> s.len], beg |-> r.beg,
                 mem |-> Moved(m, r.ptr, s.data, s.len)]
           ELSE [res |-> r.res, str |-> s, beg |-> b, mem |-> m]

\* astrclone(arena, s) with the arena at [b, e) and the bytes m
StrClone(b, e, j, m, s) ==
  IF s.len = 0 \/ s.data + s.len = b
  THEN [res |-> "ok", str |-> s, beg |-> b, mem |-> m]
  ELSE LET r == ArenaAlloc(b, e, j, 1, 1, s.len, {"NO_INIT"})
       IN  IF r.res = "ok"
           THEN [res |-> "ok", str |-> [data |-> r.ptr, len |-> s.len], beg |-> r.beg,
                 mem |-> Moved(m, r.ptr, s.data, s.len)]
           ELSE [res |-> r.res, str |-> s, beg |-> b, mem |-> m]

\* astrconcat(arena, head, tail)
StrConcat(b, e, j, m, head, tail) ==
  IF head.len = 0
  THEN IF tail.len # 0 /\ tail.data + tail.len = b
       THEN [res |-> "ok", str |-> tail, beg |-> b, mem |-> m]
       ELSE StrClone(b, e, j, m, tail)
  ELSE LET h == IF head.data + head.len # b THEN StrClone(b, e, j, m, head)
                ELSE [res |-> "ok", str |-> head, beg |-> b, mem |-> m]
           t == StrClone(h.beg, e, j, h.mem, tail)
       IN  IF h.res # "ok" THEN h
           ELSE IF t.res # "ok" THEN [t EXCEPT !.str = h.str]
           ELSE [res |-> "ok", str |-> [h.str EXCEPT !.len = @ + t.str.len],
                 beg |-> t.beg, mem |-> t.mem]

\* StrFmt that allocates no byte for the terminator it then drops
StrFmtShort(b, e, j, m, n) ==
  LET r == ArenaAlloc(b, e, j, 1, 1, n, {"NO_INIT"})
  IN  IF r.res = "ok"
      THEN [res |-> "ok", str |-> [data |-> r.ptr, len |-> n], beg |-> r.beg - 1,
            mem |-> Zeroed(Filled(m, r.ptr, n, FmtByte), r.ptr + n, 1)]
      ELSE [res |-> r.res, str |-> NoStr, beg |-> b, mem |-> m]

\* astrfmt(arena, format, ...) whose output is n bytes long
StrFmt(b, e, j, m, n) ==
  LET r == ArenaAlloc(b, e, j, 1, 1, n + 1, {"NO_INIT"})
  IN  IF r.res = "ok"
      THEN [res |-> "ok", str |-> [data |-> r.ptr, len |-> n], beg |-> r.beg - 1,
            mem |-> Zeroed(Filled(m, r.ptr, n, FmtByte), r.ptr + n, 1)]
      ELSE [res |-> r.res, str |-> NoStr, beg |-> b, mem |-> m]

\* The strings a caller passes: empty, literals, its last result and a suffix
\* of it.
StrArgs ==
  {NoStr, LitA, LitB, str} \cup
  (IF str.len > 1 THEN {[data |-> str.data + 1, len |-> str.len - 1]} ELSE {})

\* str = <a string operation>, whose outcome is g
StrOp(name, g, args) ==
  /\ pc = "run"
  /\ Take("strop")
  /\ beg' \in BegAfter(g)
  /\ pc' = IF g.res = "trap" THEN "trapped" ELSE "run"
  /\ mem' = g.mem
  /\ str' = IF g.res = "ok" THEN g.str ELSE str
  /\ last' = [op |-> name, res |-> g.res, args |-> args]
  /\ left' = Taken("strop")
  /\ UNCHANGED <<buf, end, jmpbuf, cpBeg, blocks, slice, scr, it>>

AStrClone(s) == StrOp("astrclone", StrClone(beg, end, jmpbuf, mem, s), <<s>>)
AStrConcat(h, t) == StrOp("astrconcat", StrConcat(beg, end, jmpbuf, mem, h, t), <<h, t>>)
AStrFmt(n) == StrOp("astrfmt", StrFmt(beg, end, jmpbuf, mem, n), <<n>>)

\* arena[0] = arena_init(mem, size): the caller starts over on the same buffer
ArenaInit ==
  /\ pc = "run"
  /\ Take("init")
  /\ beg' = ArenaInitState(buf, ArenaSize).beg
  /\ end' = ArenaInitState(buf, ArenaSize).end
  /\ jmpbuf' = ArenaInitState(buf, ArenaSize).jmpbuf
  /\ blocks' = {}
  /\ slice' = NoSlice
  /\ str' = NoStr
  /\ last' = [op |-> "init", res |-> "ok"]
  /\ left' = Taken("init")
  /\ UNCHANGED <<buf, cpBeg, mem, pc, scr, it>>

Next ==
  \/ \E t \in Types, flags \in FlagSets :
       \E count \in Counts(beg, end, t[1], t[2]) : Alloc(t[1], t[2], count, flags)
  \/ \E count \in 1 .. 2 : AllocInit(1, count, ExtBase)
  \/ ArenaOOM
  \/ \E b \in blocks \cup {<<NULL, 0>>} : ArenaFree(b[1], b[2])
  \/ \E v \in Vals : Push(v)
  \/ \E s \in StrArgs : AStrClone(s)
  \/ \E h \in StrArgs, t \in StrArgs : AStrConcat(h, t)
  \/ \E n \in 0 .. MaxFmt : AStrFmt(n)
  \/ ArenaInit

Spec == Init /\ [][Next]_vars

----------------------------------------------------------------------------
(* arena_alloc and ArenaOOM alone, over longer behaviours *)

InitCore == InitWith(Budget(MaxAllocs + MaxOOMs, MaxAllocs, MaxOOMs, 0, 0, 0, 0))

NextCore ==
  \/ \E t \in Types, flags \in FlagSets :
       \E count \in Counts(beg, end, t[1], t[2]) : Alloc(t[1], t[2], count, flags)
  \/ ArenaOOM

SpecCore == InitCore /\ [][NextCore]_vars

----------------------------------------------------------------------------
(* A caller that pushes onto one slice, with at most one checkpoint and one *)
(* other allocation in between                                             *)

\* The value stored in element i: neighbours differ
PushVal(i) == 1 + (i % 3)

InitSlice == InitWith(Budget(MaxPushes + 2, 1, 1, 0, MaxPushes, 0, 0))

NextSlice ==
  \/ Push(PushVal(slice.len))
  \/ \E count \in 1 .. 2 : Alloc(1, 1, count, {"NO_INIT"})
  \/ ArenaOOM

SpecSlice == InitSlice /\ [][NextSlice]_vars

----------------------------------------------------------------------------
(* src/unnamed/part_011: arena_alloc returns NULL when no checkpoint is set *)

\* arena_alloc of part_011; flags may hold PUSH_END, which takes the block
\* from the end of the arena
ArenaAlloc011(b, e, j, size, align, count, flags) ==
  LET padding == Padding(b, align)
      total_size == size * count
  IN  IF ~(count >= CDiv((e - b) - padding, size))
      THEN IF "PUSH_END" \in flags
           THEN [res |-> "ok", ptr |-> e - total_size, beg |-> b, end |-> e - total_size,
                 pad |-> padding, total |-> total_size]
           ELSE [res |-> "ok", ptr |-> b + padding, beg |-> b + padding + total_size,
                 end |-> e, pad |-> padding, total |-> total_size]
      ELSE [res |-> IF "OOM_NULL" \in flags \/ j = NULL THEN "null" ELSE "unwound",
            ptr |-> NULL, beg |-> b, end |-> e, pad |-> padding, total |-> total_size]

Alloc011(size, align, count, flags) ==
  /\ pc = "run"
  /\ Take("alloc")
  /\ LET r == ArenaAlloc011(beg, end, jmpbuf, size, align, count, flags)
     IN  /\ beg' \in BegAfter(r)
         /\ end' = r.end
         /\ mem' = AllocMem(mem, r, flags)
         /\ blocks' = IF r.res = "ok" THEN blocks \cup {<<r.ptr, r.total>>} ELSE blocks
         /\ last' = CallOf("alloc", beg, end, r, align, flags)
  /\ left' = Taken("alloc")
  /\ UNCHANGED <<buf, jmpbuf, cpBeg, pc, slice, str, scr, it>>

ArenaOOM011 ==
  /\ pc = "run"
  /\ Take("oom")
  /\ LET r == ArenaAlloc011(beg, end, jmpbuf, PtrSize, PtrSize, JBLEN, {"OOM_NULL"})
     IN  /\ beg' = r.beg
         /\ jmpbuf' = r.ptr
         /\ cpBeg' = IF r.res = "ok" THEN r.beg ELSE cpBeg
         /\ mem' = IF r.res = "ok" THEN Filled(mem, r.ptr, r.total, JBMark) ELSE mem
         /\ last' = CallOf("ArenaOOM", beg, end, r, PtrSize, {"OOM_NULL"})
  /\ left' = Taken("oom")
  /\ UNCHANGED <<buf, end, pc, blocks, slice, str, scr, it>>

\* slice_grow of part_011.  Its arena_alloc may return NULL: the copy into a
\* NULL destination of len > 0 elements faults ("segv"), and otherwise the
\* header is written back with the new capacity although nothing was allocated.
SliceGrow011(b, e, j, m, s, size, align) ==
  LET grow == MAX_ALIGN
      atTip == s.data = (b - size * s.cap) % Word
      newcap == IF s.cap = 0 THEN s.len + grow
                ELSE IF atTip THEN s.cap + grow
                ELSE s.cap + (s.cap \div 2)
      r == IF s.cap = 0 THEN ArenaAlloc011(b, e, j, size, align, newcap, {"NO_INIT"})
           ELSE IF atTip THEN ArenaAlloc011(b, e, j, size, 1, grow, {"NO_INIT"})
           ELSE ArenaAlloc011(b, e, j, size, align, newcap, {"NO_INIT"})
  IN  IF r.res = "unwound"
      THEN [res |-> "unwound", slice |-> s, beg |-> b, mem |-> m, branch |-> "none"]
      ELSE IF s.cap # 0 /\ atTip
      THEN [res |-> r.res, slice |-> [s EXCEPT !.cap = newcap], beg |-> r.beg,
            mem |-> m, branch |-> "inplace"]
      ELSE IF r.res = "null" /\ s.len > 0
      THEN [res |-> "segv", slice |-> s, beg |-> b, mem |-> m, branch |-> "none"]
      ELSE [res |-> r.res, slice |-> [data |-> r.ptr, len |-> s.len, cap |-> newcap],
            beg |-> r.beg,
            mem |-> IF r.res = "ok" THEN Moved(m, r.ptr, s.data, size * s.len) ELSE m,
            branch |-> IF s.cap = 0 THEN "first" ELSE "moved"]

\* *Push(&slice, arena) = v with the Push and slice_grow of part_011.  The
\* store through a pointer derived from NULL faults.
Push011(v) ==
  /\ pc = "run"
  /\ Take("push")
  /\ LET full == slice.len >= slice.cap
         g == IF full THEN SliceGrow011(beg, end, jmpbuf, mem, slice, ElemSize, ElemAlign)
              ELSE [res |-> "ok", slice |-> slice, beg |-> beg, mem |-> mem,
                    branch |-> "none"]
         slot == g.slice.data + ElemSize * g.slice.len
         returned == g.res \in {"ok", "null"}
     IN  IF ~PushAsserts(slice)
         THEN /\ pc' = "trapped"
              /\ last' = [op |-> "push", res |-> "trap", grew |-> FALSE,
                          branch |-> "none", ptr |-> NULL, old |-> slice]
              /\ UNCHANGED <<beg, mem, slice>>
         ELSE /\ beg' \in BegAfter(g)
              /\ pc' = IF g.res = "segv" \/ (returned /\ g.slice.data = NULL)
                       THEN "trapped" ELSE "run"
              /\ slice' = IF returned THEN [g.slice EXCEPT !.len = @ + 1] ELSE slice
              /\ mem' = IF returned /\ g.slice.data # NULL
                        THEN Filled(g.mem, slot, ElemSize, v) ELSE mem
              /\ last' = [op |-> "push", res |-> g.res, grew |-> full,
                          branch |-> g.branch,
                          ptr |-> IF returned THEN slot ELSE NULL, old |-> slice]
  /\ left' = Taken("push")
  /\ UNCHANGED <<buf, end, jmpbuf, cpBeg, blocks, str, scr, it>>

Init011 == InitWith(Budget(MaxPushes011 + 2, 1, 1, 0, MaxPushes011, 0, 0))

Next011 ==
  \/ \E t \in Types, flags \in FlagSets :
       \E count \in Counts(beg, end, t[1], t[2]) : Alloc011(t[1], t[2], count, flags)
  \/ ArenaOOM011
  \/ Push011(PushVal(slice.len))

Spec011 == Init011 /\ [][Next011]_vars

----------------------------------------------------------------------------
(* src/unnamed/part_013: a parent arena and its scratch child.  The parent  *)
(* bumps *beg upwards to end; the child's frontier is the parent's end      *)
(* field (scratch.beg = &a->end), which it bumps downwards to scr.end.      *)

\* arena_alloc of part_013 from the point where the direction is computed, on
\* an arena whose frontier cell holds b and whose limit is e
ArenaAlloc013(b, e, j, size, align, count, flags) ==
  LET is_forward == b < e
      avail == IF is_forward THEN e - b ELSE b - e
      padding == BitAnd(IF is_forward THEN UNeg(b) ELSE b % Word, align - 1)
      oom == count > CDiv(avail - padding, size)
      total_size == size * count
      offset == (IF is_forward THEN 1 ELSE -1) * (padding + total_size)
  IN  IF ~oom
      THEN [res |-> "ok", ptr |-> IF is_forward THEN b + offset - total_size ELSE b + offset,
            beg |-> b + offset, pad |-> padding, total |-> total_size]
      ELSE [res |-> IF "SOFTFAIL" \in flags \/ j = NULL THEN "null" ELSE "unwound",
            ptr |-> NULL, beg |-> b, pad |-> padding, total |-> total_size]

\* After longjmp the parent's end field, changed since setjmp, is indeterminate
EndAfter(r, e) == IF r.res = "unwound" THEN {e, scr.cpEnd} ELSE {e}

\* arena_alloc(&arena, ...) on the parent
Alloc013(size, align, count, flags) ==
  /\ pc = "run"
  /\ Take("alloc")
  /\ LET r == ArenaAlloc013(beg, end, jmpbuf, size, align, count, flags)
     IN  /\ beg' \in BegAfter(r)
         /\ end' \in EndAfter(r, end)
         /\ mem' = IF r.res = "ok" /\ "NOINIT" \notin flags
                   THEN Zeroed(mem, r.ptr, r.total) ELSE mem
         /\ blocks' = IF r.res = "ok" THEN blocks \cup {<<r.ptr, r.total, "parent">>}
                      ELSE blocks
         /\ last' = [who |-> "parent"] @@
                    CallOf("alloc", beg, end, r, align, flags \cap {"SOFTFAIL"})
  /\ left' = Taken("alloc")
  /\ UNCHANGED <<buf, jmpbuf, cpBeg, pc, slice, str, scr, it>>

\* arena_alloc(&scratch, ...) on the child of getscratch: the limit is first
\* set to the parent's frontier, and the call fails when the frontiers met
ScratchAlloc013(size, align, count, flags) ==
  /\ pc = "run"
  /\ scr.live
  /\ Take("alloc")
  /\ LET newend == beg
         met == ~(end > newend)
         oomjmp == IF "SOFTFAIL" \in flags \/ scr.oomjmp = NULL THEN "null" ELSE "unwound"
         r == IF met
              THEN [res |-> oomjmp, ptr |-> NULL, beg |-> end, pad |-> 0,
                    total |-> size * count]
              ELSE ArenaAlloc013(end, newend, scr.oomjmp, size, align, count, flags)
     IN  /\ end' \in EndAfter(r, r.beg)
         /\ beg' \in BegAfter([r EXCEPT !.beg = beg])
         /\ scr' = IF met THEN scr ELSE [scr EXCEPT !.end = newend]
         /\ mem' = IF r.res = "ok" /\ "NOINIT" \notin flags
                   THEN Zeroed(mem, r.ptr, r.total) ELSE mem
         /\ blocks' = IF r.res = "ok" THEN blocks \cup {<<r.ptr, r.total, "scratch">>}
                      ELSE blocks
         /\ last' = [who |-> "scratch"] @@
                    CallOf("alloc", end, newend, r, align, flags \cap {"SOFTFAIL"})
  /\ left' = Taken("alloc")
  /\ UNCHANGED <<buf, jmpbuf, cpBeg, pc, slice, str, it>>

\* scratch = getscratch(&arena)
GetScratch ==
  /\ pc = "run"
  /\ ~scr.live
  /\ Take("init")
  /\ scr' = [scr EXCEPT !.live = TRUE, !.end = beg, !.oomjmp = jmpbuf]
  /\ last' = [op |-> "getscratch", res |-> "ok"]
  /\ left' = Taken("init")
  /\ UNCHANGED <<buf, beg, end, jmpbuf, cpBeg, mem, pc, blocks, slice, str, it>>

\* ARENA_OOM(&arena) on the parent
ArenaOOM013 ==
  /\ pc = "run"
  /\ Take("oom")
  /\ LET r == ArenaAlloc013(beg, end, jmpbuf, PtrSize, PtrSize, JBLEN, {"SOFTFAIL"})
     IN  /\ beg' = r.beg
         /\ jmpbuf' = r.ptr
         /\ cpBeg' = IF r.res = "ok" THEN r.beg ELSE cpBeg
         /\ scr' = IF r.res = "ok" THEN [scr EXCEPT !.cpEnd = end] ELSE scr
         /\ mem' = IF r.res = "ok" THEN Filled(mem, r.ptr, r.total, JBMark) ELSE mem
         /\ last' = [who |-> "parent"] @@
                    CallOf("ArenaOOM", beg, end, r, PtrSize, {"SOFTFAIL"})
  /\ left' = Taken("oom")
  /\ UNCHANGED <<buf, end, pc, blocks, slice, str, it>>

Flags013 == SUBSET {"SOFTFAIL", "NOINIT"}

Init013 == InitWith(Budget(MaxAllocs013 + 2, MaxAllocs013, 1, 0, 0, 0, 1))

Next013 ==
  \/ \E t \in Types, flags \in Flags013 :
       \E count \in Counts(beg, end, t[1], t[2]) : Alloc013(t[1], t[2], count, flags)
  \/ \E t \in Types, flags \in Flags013 :
       \E count \in Counts(beg, end, t[1], t[2]) : ScratchAlloc013(t[1], t[2], count, flags)
  \/ GetScratch
  \/ ArenaOOM013

Spec013 == Init013 /\ [][Next013]_vars

----------------------------------------------------------------------------
(* Slices whose header the caller builds: a view made by Slice() and an    *)
(* array of its own that it wraps with cap == 0                            *)

\* slice = (T){array, n}: n elements of the caller's own storage, cap == 0
StackSlice(n) ==
  /\ pc = "run"
  /\ Take("init")
  /\ slice' = [data |-> ExtBase, len |-> n, cap |-> 0]
  /\ last' = [op |-> "stack", res |-> "ok", old |-> slice]
  /\ left' = Taken("init")
  /\ UNCHANGED <<buf, beg, end, jmpbuf, cpBeg, mem, pc, blocks, str, scr, it>>

\* slice = Slice(arena, slice, start, length)
SliceOf(start, length) ==
  /\ pc = "run"
  /\ Take("init")
  /\ LET valid == start >= 0 /\ length >= 0 /\ start + length <= slice.len
         copy == length # 0 /\ slice.data # NULL
         r == ArenaAlloc(beg, end, jmpbuf, ElemSize, ElemAlign, length, {"NO_INIT"})
         res == IF ~valid THEN "trap" ELSE IF copy THEN r.res ELSE "ok"
     IN  /\ beg' \in (IF valid /\ copy THEN BegAfter(r) ELSE {beg})
         /\ pc' = IF res = "trap" THEN "trapped" ELSE "run"
         /\ mem' = IF valid /\ copy /\ r.res = "ok"
                   THEN Moved(mem, r.ptr, slice.data + ElemSize * start, ElemSize * length)
                   ELSE mem
         /\ slice' = IF res # "ok" THEN slice
                     ELSE [data |-> IF copy THEN r.ptr ELSE NULL, len |-> length,
                           cap |-> length]
         /\ last' = [op |-> "slice", res |-> res, old |-> slice]
  /\ left' = Taken("init")
  /\ UNCHANGED <<buf, end, jmpbuf, cpBeg, blocks, str, scr, it>>

InitMove == InitWith(Budget(MaxPushesMove + 3, 1, 0, 0, MaxPushesMove, 0, 2))

NextMove ==
  \/ Push(PushVal(slice.len))
  \/ \E n \in 0 .. MaxStack : StackSlice(n)
  \/ \E start \in 0 .. 1, length \in 0 .. MaxView : SliceOf(start, length)
  \/ \E count \in 1 .. 2 : Alloc(1, 1, count, {"NO_INIT"})

SpecMove == InitMove /\ [][NextMove]_vars

----------------------------------------------------------------------------
(* A caller that only builds strings, each from literals and from the      *)
(* string it built last                                                    *)

InitStr == InitWith(Budget(MaxStrOps, 0, 0, 0, 0, MaxStrOps, 0))

NextStr ==
  \/ \E s \in StrArgs : AStrClone(s)
  \/ \E h \in StrArgs, t \in StrArgs : AStrConcat(h, t)
  \/ \E n \in 0 .. MaxFmt : AStrFmt(n)

SpecStr == InitStr /\ [][NextStr]_vars

----------------------------------------------------------------------------
(* src/unnamed/part_012: the iterators astr_split and astr_split_by_char   *)

\* arena_alloc of part_012 (built without OOM_COMMIT): size and count must be
\* positive
ArenaAlloc012(b, e, j, size, align, count, flags) ==
  IF size <= 0 \/ count <= 0
  THEN [res |-> "trap", ptr |-> NULL, beg |-> b, pad |-> 0, total |-> 0]
  ELSE ArenaAlloc(b, e, j, size, align, count, flags)

\* astr_clone(arena, s)
StrClone012(b, e, j, m, s) ==
  IF s.len = 0 \/ s.data + s.len = b
  THEN [res |-> "ok", str |-> s, beg |-> b, mem |-> m]
  ELSE LET r == ArenaAlloc012(b, e, j, 1, 1, s.len, {"NO_INIT"})
       IN  IF r.res = "ok"
           THEN [res |-> "ok", str |-> [data |-> r.ptr, len |-> s.len], beg |-> r.beg,
                 mem |-> Moved(m, r.ptr, s.data, s.len)]
           ELSE [res |-> r.res, str |-> s, beg |-> b, mem |-> m]

\* astr_concat(arena, head, tail)
StrConcat012(b, e, j, m, head, tail) ==
  IF head.len = 0
  THEN IF tail.len # 0 /\ tail.data + tail.len = b
       THEN [res |-> "ok", str |-> tail, beg |-> b, mem |-> m]
       ELSE StrClone012(b, e, j, m, tail)
  ELSE LET h == IF head.data + head.len # b THEN StrClone012(b, e, j, m, head)
                ELSE [res |-> "ok", str |-> head, beg |-> b, mem |-> m]
           t == StrClone012(h.beg, e, j, h.mem, tail)
       IN  IF h.res # "ok" THEN h
           ELSE IF t.res # "ok" THEN [t EXCEPT !.str = h.str]
           ELSE [res |-> "ok", str |-> [h.str EXCEPT !.len = @ + t.str.len],
                 beg |-> t.beg, mem |-> t.mem]

\* The literal astr("\0"): one zero byte outside the arena
NulAddr == Base + 1 + ArenaSize + Guard
NulLit == [data |-> NulAddr, len |-> 1]

\* astr_to_cstr(arena, s): the arena is passed by value, so the caller's
\* frontier stays; the bytes written above it stay written.
AStrToCStr(b, e, j, m, s) == StrConcat012(b, e, j, m, s, NulLit)

\* strlen(p)
StrLen(m, p) ==
  LET zeros == {k \in 0 .. (NulAddr - p) : m[p + k] = 0}
  IN  CHOOSE k \in zeros : \A k2 \in zeros : k <= k2

\* strpbrk(p, charset) as an offset from p, -1 for NULL
StrPBrk(m, p, charset) ==
  LET hits == {i \in 0 .. (StrLen(m, p) - 1) : m[p + i] \in charset}
  IN  IF hits = {} THEN -1 ELSE CHOOSE i \in hits : \A i2 \in hits : i <= i2

\* strspn(p, charset)
StrSpn(m, p, charset) ==
  LET runs == {n \in 0 .. StrLen(m, p) : \A i \in 0 .. (n - 1) : m[p + i] \in charset}
  IN  CHOOSE n \in runs : \A n2 \in runs : n >= n2

\* memmem(p, n, sep.data, sep.len) as an offset from p, -1 for NULL
MemMem(m, p, n, sep) ==
  LET hits == {i \in 0 .. (n - Len(sep)) :
                 \A k \in 1 .. Len(sep) : m[p + i + k - 1] = sep[k]}
  IN  IF hits = {} THEN -1 ELSE CHOOSE i \in hits : \A i2 \in hits : i <= i2

\* _astr_split(s, sep, &pos)
AStrSplit(m, s, sep, pos) ==
  LET rest == [data |-> s.data + pos, len |-> s.len - pos]
      res == MemMem(m, rest.data, rest.len, sep)
      token == [data |-> rest.data, len |-> IF res > 0 THEN res ELSE rest.len]
  IN  [token |-> token, pos |-> pos + token.len + Len(sep)]

\* _astr_split_by_char, once strpbrk has returned p1 + p2 (p2 = -1 for NULL)
ByCharToken(c, p2, rest, charset, pos) ==
  [res |-> "ok",
   token |-> [data |-> rest.data, len |-> IF p2 >= 0 THEN p2 ELSE rest.len],
   pos |-> pos + (IF p2 >= 0 THEN p2 + StrSpn(c.mem, c.str.data + p2, charset)
                  ELSE rest.len),
   mem |-> c.mem]

\* _astr_split_by_char, once astr_to_cstr has returned p1 = c.str.data
ByCharSearch(c, rest, charset, pos) ==
  IF c.res # "ok"
  THEN [res |-> c.res, token |-> NoStr, pos |-> pos, mem |-> c.mem]
  ELSE ByCharToken(c, StrPBrk(c.mem, c.str.data, charset), rest, charset, pos)

\* _astr_split_by_char(s, charset, &pos, a)
AStrSplitByChar(b, e, j, m, s, charset, pos) ==
  ByCharSearch(AStrToCStr(b, e, j, m, [data |-> s.data + pos, len |-> s.len - pos]),
               [data |-> s.data + pos, len |-> s.len - pos], charset, pos)

\* The condition of the loop  for (astr_split(it, strsep, str)) { ... }  and,
\* when it holds, the body, which is given it.token
SplitStep ==
  /\ pc = "run"
  /\ it.kind = "sep" /\ it.state = "iter"
  /\ IF it.pos < it.input.len
     THEN LET r == AStrSplit(mem, it.input, it.sep, it.pos)
          IN  it' = [it EXCEPT !.pos = r.pos, !.token = r.token,
                               !.out = IF r.token.data # NULL THEN Append(@, r.token)
                                       ELSE @,
                               !.state = IF r.token.data # NULL THEN "iter" ELSE "done"]
     ELSE it' = [it EXCEPT !.state = "done"]
  /\ last' = [op |-> "astr_split", res |-> "ok"]
  /\ UNCHANGED <<buf, beg, end, jmpbuf, cpBeg, mem, pc, blocks, slice, str, left, scr>>

\* it.token = r.token, then the test of it.token.data[0] and the body
ByCharYield(r) ==
  /\ it' = [it EXCEPT !.pos = r.pos, !.token = r.token,
                      !.out = IF r.res = "ok" /\ r.mem[r.token.data] # 0
                              THEN Append(@, r.token) ELSE @,
                      !.state = IF r.res # "ok" THEN "failed"
                                ELSE IF r.mem[r.token.data] # 0 THEN "iter"
                                ELSE "done"]
  /\ mem' = r.mem
  /\ pc' = IF r.res = "trap" THEN "trapped" ELSE "run"
  /\ last' = [op |-> "astr_split_by_char", res |-> r.res]

\* The same for  for (astr_split_by_char(it, charset, str, arena)) { ... }
SplitByCharStep ==
  /\ pc = "run"
  /\ it.kind = "char" /\ it.state = "iter"
  /\ IF it.pos < it.input.len
     THEN ByCharYield(AStrSplitByChar(beg, end, jmpbuf, mem, it.input, it.sep, it.pos))
     ELSE /\ it' = [it EXCEPT !.state = "done"]
          /\ last' = [op |-> "astr_split_by_char", res |-> "ok"]
          /\ UNCHANGED <<mem, pc>>
  /\ UNCHANGED <<buf, beg, end, jmpbuf, cpBeg, blocks, slice, str, left, scr>>

\* The strings that are split: every string of at most MaxInput characters
\* over a delimiter and two letters, and "a,b,,c"
Strings(n) == UNION {[1 .. k -> {Comma, LetterA, LetterB}] : k \in 0 .. n}
Example == <<LetterA, Comma, LetterB, Comma, Comma, LetterC>>
Inputs == Strings(MaxInput) \cup {Example}
Seps == {<<Comma>>, <<Comma, Comma>>}
Charsets == {{Comma}, {Comma, LetterB}}

\* The state when the loop is entered: the string lies outside the arena
\* ("ext", and "full" for an arena with two bytes left) or in it, ending at
\* the frontier ("tip") or not ("below"); it = {.input = str, .sep = ...}.
InitSplit ==
  /\ buf = Base
  /\ end = ArenaInitState(buf, ArenaSize).end
  /\ jmpbuf = ArenaInitState(buf, ArenaSize).jmpbuf
  /\ cpBeg = NULL
  /\ pc = "run"
  /\ blocks = {}
  /\ slice = NoSlice
  /\ left = Budget(0, 0, 0, 0, 0, 0, 0)
  /\ last = [op |-> "init", res |-> "ok"]
  /\ scr = Fresh
  /\ \E w \in Inputs, place \in {"ext", "full", "tip", "below"} :
       LET at == IF place \in {"ext", "full"} THEN ExtBase ELSE buf
       IN  /\ str = [data |-> at, len |-> Len(w)]
           /\ beg = CASE place = "ext" -> buf
                      [] place = "full" -> end - 2
                      [] place = "tip" -> buf + Len(w)
                      [] place = "below" -> buf + Len(w) + 1
           /\ mem = [a \in Addr |->
                       IF a >= at /\ a < at + Len(w) THEN w[a - at + 1]
                       ELSE IF a = NulAddr THEN 0
                       ELSE InitByte(a, Dirty)]
  /\ \/ \E sep \in Seps :
          it = [kind |-> "sep", input |-> str, sep |-> sep, pos |-> 0,
                token |-> NoStr, out |-> <<>>, state |-> "iter"]
     \/ \E charset \in Charsets :
          it = [kind |-> "char", input |-> str, sep |-> charset, pos |-> 0,
                token |-> NoStr, out |-> <<>>, state |-> "iter"]

NextSplit == SplitStep \/ SplitByCharStep

SpecSplit == InitSplit /\ [][NextSplit]_vars

----------------------------------------------------------------------------
(* arena_malloc and arena_free: a caller that frees blocks, in any order    *)
(* and with any size                                                       *)

MaxMallocs == 2                \* arena_malloc calls in one behaviour of SpecFree
MaxFrees == 2                  \* arena_free calls in one behaviour of SpecFree
MaxFreeSize == 5               \* largest size passed to arena_malloc and arena_free

\* p = arena_malloc(size, arena)
ArenaMalloc(size) == Alloc(size, MAX_ALIGN, 1, {"NO_INIT"})

InitFree == InitWith(Budget(MaxMallocs + MaxFrees, MaxMallocs, 0, MaxFrees, 0, 0, 0))

NextFree ==
  \/ \E size \in 1 .. MaxFreeSize : ArenaMalloc(size)
  \/ \E b \in blocks \cup {<<NULL, 0>>}, size \in 0 .. MaxFreeSize : ArenaFree(b[1], size)

SpecFree == InitFree /\ [][NextFree]_vars

----------------------------------------------------------------------------
(* part_013: the block that declared  Arena scratch = getscratch(&arena)    *)
(* is left                                                                 *)

\* The scratch child is an automatic object: leaving its block runs no code,
\* the parent keeps the fields it has
ScratchEnds ==
  /\ pc = "run"
  /\ scr.live
  /\ scr' = [scr EXCEPT !.live = FALSE]
  /\ last' = [op |-> "endscratch", res |-> "ok"]
  /\ UNCHANGED <<buf, beg, end, jmpbuf, cpBeg, mem, pc, blocks, slice, str, left, it>>

NextScope013 == Next013 \/ ScratchEnds

SpecScope013 == Init013 /\ [][NextScope013]_vars

----------------------------------------------------------------------------
(* src/include/arena.h built with OOM_COMMIT: the buffer is a reservation   *)
(* of ArenaSize bytes without access, of which arena_init commits the      *)
(* first chunk and arena_alloc commits further chunks on demand            *)

CommitSize == 8                \* sysconf(_SC_PAGESIZE) * ARENA_COMMIT_PAGE_COUNT
MaxAllocsCommit == 2           \* arena_alloc calls in one behaviour of SpecCommit
MaxGrants == 2                 \* chunks the system grants to one call at most

\* arena_init(mem, 0) with OOM_COMMIT
ArenaInitCommit(m0) ==
  [beg |-> m0, end |-> IF m0 # NULL THEN m0 + CommitSize ELSE 0, jmpbuf |-> NULL,
   commit_size |-> CommitSize]

\* mprotect(e, commit_size, PROT_READ | PROT_WRITE) succeeds: the chunk lies in
\* the reservation and the system grants it
MProtect(e, grants) == grants > 0 /\ e + CommitSize <= buf + ArenaSize

RECURSIVE CommitLoop(_, _, _, _, _, _, _)

\* CommitLoop that commits one chunk and does not test the request again
CommitLoopOnce(b, e, size, align, count, grants, chunks) ==
  IF ~IsOOM(b, e, size, align, count)
  THEN [fit |-> TRUE, end |-> e, chunks |-> chunks]
  ELSE IF ~MProtect(e, grants)
  THEN [fit |-> FALSE, end |-> e, chunks |-> chunks]
  ELSE [fit |-> TRUE, end |-> e + CommitSize, chunks |-> chunks + 1]

\* The while loop of arena_alloc: as long as the request does not fit below e,
\* commit the chunk at e; the system grants `grants` more chunks to this call
CommitLoop(b, e, size, align, count, grants, chunks) ==
  IF ~IsOOM(b, e, size, align, count)
  THEN [fit |-> TRUE, end |-> e, chunks |-> chunks]
  ELSE IF ~MProtect(e, grants)
  THEN [fit |-> FALSE, end |-> e, chunks |-> chunks]
  ELSE CommitLoop(b, e + CommitSize, size, align, count, grants - 1, chunks + 1)

\* arena_alloc with OOM_COMMIT, once the loop has ended as c
ArenaAllocCommit(b, j, size, align, count, flags, c) ==
  [end |-> c.end, chunks |-> c.chunks, denied |-> ~c.fit] @@
  (IF c.fit
   THEN [res |-> "ok", ptr |-> b + Padding(b, align),
         beg |-> b + Padding(b, align) + size * count,
         pad |-> Padding(b, align), total |-> size * count]
   ELSE [res |-> IF "OOM_NULL" \in flags THEN "null"
                 ELSE IF j = NULL THEN "trap"
                 ELSE "unwound",
         ptr |-> NULL, beg |-> b, pad |-> Padding(b, align), total |-> size * count])

\* What the caller observes of the call whose outcome is r
AllocCommitDone(r, align, flags) ==
  /\ beg' \in BegAfter(r)
  /\ end' \in EndAfter(r, r.end)
  /\ mem' = AllocMem(mem, r, flags)
  /\ pc' = IF r.res = "trap" THEN "trapped" ELSE "run"
  /\ blocks' = IF r.res = "ok" THEN blocks \cup {<<r.ptr, r.total>>} ELSE blocks
  /\ last' = [chunks |-> r.chunks, denied |-> r.denied] @@
             CallOf("alloc", beg, end, r, align, flags)

\* p = arena_alloc(arena, size, align, count, flags) with OOM_COMMIT
AllocCommit(size, align, count, flags, grants) ==
  /\ pc = "run"
  /\ Take("alloc")
  /\ AllocCommitDone(ArenaAllocCommit(beg, jmpbuf, size, align, count, flags,
                       CommitLoop(beg, end, size, align, count, grants, 0)),
                     align, flags)
  /\ left' = Taken("alloc")
  /\ UNCHANGED <<buf, jmpbuf, cpBeg, slice, str, scr, it>>

\* What the caller observes of ArenaOOM whose New has the outcome r
ArenaOOMCommitDone(r) ==
  /\ beg' = r.beg
  /\ end' = r.end
  /\ jmpbuf' = r.ptr
  /\ cpBeg' = IF r.res = "ok" THEN r.beg ELSE cpBeg
  /\ scr' = IF r.res = "ok" THEN [scr EXCEPT !.cpEnd = r.end] ELSE scr
  /\ mem' = IF r.res = "ok" THEN Filled(mem, r.ptr, r.total, JBMark) ELSE mem
  /\ last' = [chunks |-> r.chunks, denied |-> r.denied] @@
             CallOf("ArenaOOM", beg, end, r, PtrSize, {"OOM_NULL"})

\* ArenaOOM(arena) with OOM_COMMIT
ArenaOOMCommit(grants) ==
  /\ pc = "run"
  /\ Take("oom")
  /\ ArenaOOMCommitDone(ArenaAllocCommit(beg, jmpbuf, PtrSize, PtrSize, JBLEN, {"OOM_NULL"},
                          CommitLoop(beg, end, PtrSize, PtrSize, JBLEN, grants, 0)))
  /\ left' = Taken("oom")
  /\ UNCHANGED <<buf, pc, blocks, slice, str, it>>

\* The state after  mem = mmap(0, ArenaSize, PROT_NONE, ...);
\* arena[0] = arena_init(mem, 0)
InitCommit ==
  /\ buf = Base
  /\ beg = ArenaInitCommit(buf).beg
  /\ end = ArenaInitCommit(buf).end
  /\ jmpbuf = ArenaInitCommit(buf).jmpbuf
  /\ cpBeg = NULL
  /\ mem = [a \in Addr |-> InitByte(a, 0)]
  /\ pc = "run"
  /\ blocks = {}
  /\ slice = NoSlice
  /\ str = NoStr
  /\ left = Budget(MaxAllocsCommit + 1, MaxAllocsCommit, 1, 0, 0, 0, 0)
  /\ last = [op |-> "init", res |-> "ok"]
  /\ scr = Fresh
  /\ it = NoIter

NextCommit ==
  \/ \E t \in Types, flags \in FlagSets, grants \in 0 .. MaxGrants :
       \E count \in Counts(beg, end, t[1], t[2]) \cup Counts(beg, buf + ArenaSize, t[1], t[2]) :
         AllocCommit(t[1], t[2], count, flags, grants)
  \/ \E grants \in 0 .. MaxGrants : ArenaOOMCommit(grants)

SpecCommit == InitCommit /\ [][NextCommit]_vars

----------------------------------------------------------------------------
(* The Fibonacci slice of main (src/unnamed/part_005), with the Push and    *)
(* slice_grow of src/include/arena.h                                       *)

FibCap == 4                    \* capacity of the storage allocated up front (64)
FibPushes == 6                 \* Push calls in one behaviour of SpecFib (80)

\* fibs->cap = cap; fibs->data = New(arena, T, fibs->cap): len stays 0
NewSlice(cap) ==
  /\ pc = "run"
  /\ Take("init")
  /\ LET r == ArenaAlloc(beg, end, jmpbuf, ElemSize, ElemAlign, cap, {})
     IN  /\ beg' \in BegAfter(r)
         /\ mem' = AllocMem(mem, r, {})
         /\ pc' = IF r.res = "trap" THEN "trapped" ELSE "run"
         /\ slice' = IF r.res = "ok" THEN [data |-> r.ptr, len |-> 0, cap |-> cap]
                     ELSE slice
         /\ last' = [op |-> "newslice", res |-> r.res, old |-> slice]
  /\ left' = Taken("init")
  /\ UNCHANGED <<buf, end, jmpbuf, cpBeg, blocks, str, scr, it>>

\* The value main pushes: 0, 1, then fibs->data[i - 2] + fibs->data[i - 1]
FibVal ==
  IF slice.len < 2 THEN slice.len
  ELSE mem[slice.data + ElemSize * (slice.len - 2)]
         + mem[slice.data + ElemSize * (slice.len - 1)]

InitFib == InitWith(Budget(FibPushes + 2, 1, 0, 0, FibPushes, 0, 1))

NextFib ==
  \/ NewSlice(FibCap)
  \/ Push(FibVal)
  \/ \E count \in 1 .. 2 : Alloc(1, 1, count, {"NO_INIT"})

SpecFib == InitFib /\ [][NextFib]_vars

----------------------------------------------------------------------------
(* src/unnamed/part_011: scratch arenas carved from the end of an arena by  *)
(* PushArena and given back by PopArena.  scr.stack holds the scratch      *)
(* arenas that are live, the innermost last; each remembers in `was` the   *)
(* limit its parent had before the push.                                    *)

MaxDepth == 2                  \* scratch arenas nested at most
MaxScopeAllocs == 2            \* arena_alloc calls in one behaviour of SpecScope011
MaxScopePushes == 2            \* PushArena calls in one behaviour of SpecScope011

NoScopes == [stack |-> <<>>, cpEnd |-> NULL]

\* The arena the caller works on: the innermost scratch, or the arena itself
Cur ==
  IF scr.stack = <<>> THEN [beg |-> beg, end |-> end, jmpbuf |-> jmpbuf]
  ELSE scr.stack[Len(scr.stack)]

\* longjmp to the checkpoint: every scratch scope is left.  The Arena object,
\* changed since setjmp, holds its value at setjmp or the one at longjmp.
Unwind011(name) ==
  /\ scr' = [scr EXCEPT !.stack = <<>>]
  /\ beg' \in {beg, cpBeg}
  /\ end' \in {end, scr.cpEnd}
  /\ last' = [op |-> name, res |-> "unwound"]
  /\ UNCHANGED <<mem, blocks, pc>>

\* PushArena, once its New(arena, byte, (end - beg) / 2, NO_INIT | PUSH_END)
\* on the arena a has the outcome r
PushArenaDone(a, r) ==
  IF r.res = "unwound" THEN Unwind011("PushArena")
  ELSE /\ end' = IF scr.stack = <<>> THEN r.end ELSE end
       /\ scr' = [scr EXCEPT !.stack =
                    Append(IF @ = <<>> THEN @ ELSE [@ EXCEPT ![Len(@)].end = r.end],
                           [beg |-> r.ptr, end |-> a.end, jmpbuf |-> a.jmpbuf,
                            was |-> a.end])]
       /\ last' = [op |-> "PushArena", res |-> r.res]
       /\ UNCHANGED <<beg, mem, blocks, pc>>

\* Arena scratch[] = {PushArena(arena)}
PushArena ==
  /\ pc = "run"
  /\ Take("init")
  /\ Len(scr.stack) < MaxDepth
  /\ PushArenaDone(Cur, ArenaAlloc011(Cur.beg, Cur.end, Cur.jmpbuf, 1, 1,
                                      CDiv(Cur.end - Cur.beg, 2), {"NO_INIT", "PUSH_END"}))
  /\ left' = Taken("init")
  /\ UNCHANGED <<buf, jmpbuf, cpBeg, slice, str, it>>

\* PopArena(arena, scratch) on the innermost scratch and the arena it was
\* carved from, whose limit is parentEnd
PopArenaDone(top, parentEnd) ==
  IF ~(parentEnd <= top.beg)
  THEN /\ pc' = "trapped"
       /\ last' = [op |-> "PopArena", res |-> "trap"]
       /\ UNCHANGED <<end, scr>>
  ELSE /\ pc' = "run"
       /\ end' = IF Len(scr.stack) = 1 THEN top.end ELSE end
       /\ scr' = [scr EXCEPT !.stack =
                    IF Len(@) = 1 THEN <<>>
                    ELSE [SubSeq(@, 1, Len(@) - 1) EXCEPT ![Len(@) - 1].end = top.end]]
       /\ last' = [op |-> "PopArena", res |-> "ok"]

PopArena ==
  /\ pc = "run"
  /\ scr.stack # <<>>
  /\ PopArenaDone(Cur, IF Len(scr.stack) = 1 THEN end
                       ELSE scr.stack[Len(scr.stack) - 1].end)
  /\ UNCHANGED <<buf, beg, jmpbuf, cpBeg, mem, blocks, slice, str, left, it>>

\* A return statement inside the block of the innermost scratch, before its
\* PopArena: the scratch is an automatic object and leaving its block runs no
\* code
EarlyReturn ==
  /\ pc = "run"
  /\ scr.stack # <<>>
  /\ scr' = [scr EXCEPT !.stack = SubSeq(@, 1, Len(@) - 1)]
  /\ last' = [op |-> "return", res |-> "ok"]
  /\ UNCHANGED <<buf, beg, end, jmpbuf, cpBeg, mem, pc, blocks, slice, str, left, it>>

\* arena_alloc on the innermost scratch, with the outcome r
ScopedAllocDone(r, flags) ==
  IF r.res = "unwound" THEN Unwind011("alloc")
  ELSE /\ scr' = [scr EXCEPT !.stack[Len(scr.stack)].beg = r.beg]
       /\ mem' = AllocMem(mem, r, flags)
       /\ blocks' = IF r.res = "ok" THEN blocks \cup {<<r.ptr, r.total>>} ELSE blocks
       /\ last' = [op |-> "alloc", res |-> r.res]
       /\ UNCHANGED <<beg, end, pc>>

\* p = New(scratch, t, n, flags)
ScopedAlloc(size, align, count, flags) ==
  /\ pc = "run"
  /\ scr.stack # <<>>
  /\ Take("alloc")
  /\ ScopedAllocDone(ArenaAlloc011(Cur.beg, Cur.end, Cur.jmpbuf, size, align, count, flags),
                     flags)
  /\ left' = Taken("alloc")
  /\ UNCHANGED <<buf, jmpbuf, cpBeg, slice, str, it>>

\* ArenaOOM(arena) in the function that owns the arena, before any scratch
ArenaOOMScoped ==
  /\ pc = "run"
  /\ scr.stack = <<>>
  /\ Take("oom")
  /\ LET r == ArenaAlloc011(beg, end, jmpbuf, PtrSize, PtrSize, JBLEN, {"OOM_NULL"})
     IN  /\ beg' = r.beg
         /\ jmpbuf' = r.ptr
         /\ cpBeg' = IF r.res = "ok" THEN r.beg ELSE cpBeg
         /\ scr' = IF r.res = "ok" THEN [scr EXCEPT !.cpEnd = end] ELSE scr
         /\ mem' = IF r.res = "ok" THEN Filled(mem, r.ptr, r.total, JBMark) ELSE mem
         /\ last' = [op |-> "ArenaOOM", res |-> r.res]
  /\ left' = Taken("oom")
  /\ UNCHANGED <<buf, end, pc, blocks, slice, str, it>>

InitScope011 ==
  /\ buf \in Bases
  /\ beg = buf
  /\ end = buf + ArenaSize
  /\ jmpbuf = NULL
  /\ cpBeg = NULL
  /\ mem = [a \in Addr |-> InitByte(a, Dirty)]
  /\ pc = "run"
  /\ blocks = {}
  /\ slice = NoSlice
  /\ str = NoStr
  /\ left = Budget(MaxScopeAllocs + MaxScopePushes + 1, MaxScopeAllocs, 1, 0, 0, 0,
                   MaxScopePushes)
  /\ last = [op |-> "init", res |-> "ok"]
  /\ scr = NoScopes
  /\ it = NoIter

NextScope011 ==
  \/ ArenaOOMScoped
  \/ PushArena
  \/ PopArena
  \/ EarlyReturn
  \/ \E t \in Types, flags \in FlagSets :
       \E count \in Counts(Cur.beg, Cur.end, t[1], t[2]) :
         ScopedAlloc(t[1], t[2], count, flags)

SpecScope011 == InitScope011 /\ [][NextScope011]_vars

----------------------------------------------------------------------------
(* The comparator and the hash that src/include/arena.h registers for astr  *)
(* keys (CC_CMPR, CC_HASH), applied to two keys                            *)

MaxKey == 3                    \* longest key compared
HashBits == 16                 \* bits of the hash that are modelled: the lowest

RECURSIVE BitXor(_, _)
BitXor(a, b) ==
  IF a = 0 THEN b
  ELSE IF b = 0 THEN a
  ELSE ((a + b) % 2) + 2 * BitXor(a \div 2, b \div 2)

\* The lowest HashBits bits of 0xcbf29ce484222325 and of 0x100000001b3; the
\* lowest bits of x ^ y and of x * y depend on the lowest bits of x and y only
FnvBasis == 8997
FnvPrime == 435

\* memcmp(p, q, n): the difference at the first byte that differs
MemCmp(m, p, q, n) ==
  LET diffs == {i \in 0 .. (n - 1) : m[p + i] # m[q + i]}
      i == CHOOSE d \in diffs : \A d2 \in diffs : d <= d2
  IN  IF diffs = {} THEN 0 ELSE m[p + i] - m[q + i]

\* strncmp(p, q, n): like memcmp, but the comparison ends at a zero byte
StrNCmp(m, p, q, n) ==
  LET stops == {i \in 0 .. (n - 1) : m[p + i] # m[q + i] \/ m[p + i] = 0}
      i == CHOOSE d \in stops : \A d2 \in stops : d <= d2
  IN  IF stops = {} THEN 0 ELSE m[p + i] - m[q + i]

\* astrcmp(a, b): true when the strings are equal
AStrCmp(m, a, b) ==
  IF a.len # b.len THEN FALSE
  ELSE a.len = 0 \/ MemCmp(m, a.data, b.data, a.len) = 0

\* astrhash(key), from byte i on with the hash so far
RECURSIVE AStrHashFrom(_, _, _, _)
AStrHashFrom(m, key, i, hash) ==
  IF i >= key.len THEN hash
  ELSE AStrHashFrom(m, key, i + 1, (BitXor(m[key.data + i], hash) * FnvPrime) % (2 ^ HashBits))

AStrHash(m, key) == AStrHashFrom(m, key, 0, FnvBasis)

\* CC_CMPR: strncmp(val_1.data, val_2.data, min(val_1.len, val_2.len))
CC_CMPR(m, val_1, val_2) ==
  StrNCmp(m, val_1.data, val_2.data,
          IF val_1.len < val_2.len THEN val_1.len ELSE val_2.len)

\* CC_HASH: astrhash(val)
CC_HASH(m, val) == AStrHash(m, val)

\* The keys: every string of at most MaxKey bytes over two letters and the
\* zero byte
Keys == UNION {[1 .. k -> {0, LetterA, LetterB}] : k \in 0 .. MaxKey}

\* Two keys in memory, the first outside the arena and the second in it
InitKeys ==
  /\ buf = Base
  /\ beg = buf + MaxKey
  /\ end = buf + ArenaSize
  /\ jmpbuf = NULL
  /\ cpBeg = NULL
  /\ pc = "run"
  /\ blocks = {}
  /\ slice = NoSlice
  /\ str = NoStr
  /\ left = Budget(0, 0, 0, 0, 0, 0, 0)
  /\ last = [op |-> "init", res |-> "ok"]
  /\ scr = Fresh
  /\ \E k1 \in Keys, k2 \in Keys :
       /\ mem = [a \in Addr |->
                   IF a >= ExtBase /\ a < ExtBase + Len(k1) THEN k1[a - ExtBase + 1]
                   ELSE IF a >= buf /\ a < buf + Len(k2) THEN k2[a - buf + 1]
                   ELSE InitByte(a, Dirty)]
       /\ it = [kind |-> "keys", val_1 |-> [data |-> ExtBase, len |-> Len(k1)],
                val_2 |-> [data |-> buf, len |-> Len(k2)], state |-> "fresh"]

\* The container compares the two keys and hashes each
CompareKeys ==
  /\ pc = "run"
  /\ it.kind = "keys" /\ it.state = "fresh"
  /\ it' = [it EXCEPT !.state = "done"]
  /\ last' = [op |-> "CC_CMPR", res |-> "ok",
              cmpr |-> CC_CMPR(mem, it.val_1, it.val_2),
              equal |-> AStrCmp(mem, it.val_1, it.val_2),
              hash_1 |-> CC_HASH(mem, it.val_1),
              hash_2 |-> CC_HASH(mem, it.val_2)]
  /\ UNCHANGED <<buf, beg, end, jmpbuf, cpBeg, mem, pc, blocks, slice, str, left, scr>>

NextKeys == CompareKeys

SpecKeys == InitKeys /\ [][NextKeys]_vars

----------------------------------------------------------------------------
(* A caller that establishes checkpoint after checkpoint on one arena       *)

MaxCheckpoints == 3            \* ArenaOOM calls in one behaviour of SpecOOM

InitOOM == InitWith(Budget(MaxCheckpoints, 1, MaxCheckpoints, 0, 0, 0, 0))

SpecOOM == InitOOM /\ [][NextCore]_vars

----------------------------------------------------------------------------
(* Properties *)

\* x rounded up to the next multiple of a
RoundUp(x, a) == ((x + a - 1) \div a) * a

Min(x, y) == IF x <= y THEN x ELSE y
Max(x, y) == IF x >= y THEN x ELSE y

AllocOK == last.op = "alloc" /\ last.res = "ok"

\* C1: every successful arena_alloc, on a forward arena and on a scratch arena
\* growing downwards alike, returns a multiple of align, and the block
\* [ptr, ptr + size*count) lies inside the bytes that were free at the call.
C1_AlignedInsideFree ==
  AllocOK =>
    /\ last.ptr % last.align = 0
    /\ Min(last.was, last.lim) <= last.ptr
    /\ last.ptr + last.total <= Max(last.was, last.lim)

\* C2: arena_alloc reports OOM exactly when padding + size*count is greater
\* than end - beg; a request that fills the arena exactly succeeds.
C2_OOMExactlyWhenTooBig ==
  last.op = "alloc" =>
    (last.res = "ok" <=>
       (RoundUp(last.was, last.align) - last.was) + last.total <= last.lim - last.was)

\* C3: after any sequence of arena_init, arena_alloc, Push, astrclone,
\* astrconcat, astrfmt and arena_free the frontier is inside the region:
\* buffer start <= beg <= end.
C3_FrontierInRegion == buf <= beg /\ beg <= end

C3_Witness == last.op = "astrfmt" /\ last.res = "ok" /\ beg > buf /\ left.ops = 0

\* C4: an allocating operation that returns to its caller never leaves beg
\* smaller than it found it.
AllocatingOps == {"alloc", "alloc_init", "ArenaOOM", "push", "astrclone",
                  "astrconcat", "astrfmt"}

C5_AllocFrame ==
  [][(last'.op = "alloc" /\ last'.res = "ok") =>
       /\ last'.ptr = RoundUp(beg, last'.align)
       /\ beg' = last'.ptr + last'.total
       /\ end' = end
       /\ jmpbuf' = jmpbuf
       /\ \A a \in Addr :
            (a < last'.ptr \/ a >= last'.ptr + last'.total) => mem'[a] = mem[a]
       /\ last'.zero =>
            \A a \in Addr : (a >= last'.ptr /\ a < last'.ptr + last'.total) => mem'[a] = 0
    ]_vars

C5_Witness ==
  /\ AllocOK /\ last.zero /\ last.pad > 0 /\ last.total > 0
  /\ Cardinality(blocks) > 1
  /\ mem[last.ptr - 1] = Dirty

\* C6 as stated: once control is back at the checkpoint, beg is what it was
\* when the checkpoint was established.
C6_FrontierRestored == (last.op = "alloc" /\ last.res = "unwound") => beg = cpBeg

\* C6 amended: the failing allocation itself consumes nothing (beg is not above
\* its value just before the failing call, nor below the one at establishment);
\* what was allocated on the arena in between may stay consumed.
C6_FailedCallConsumesNothing ==
  (last.op = "alloc" /\ last.res = "unwound") => (cpBeg <= beg /\ beg <= last.was)

C6_Witness == last.op = "alloc" /\ last.res = "unwound" /\ last.was > cpBeg /\ beg = last.was

\* C7: without a checkpoint and without the soft flag an OOM is fatal:
\* arena_alloc returns NULL only when the soft flag was passed.
C7_NullOnlyWhenSoft == (last.op = "alloc" /\ last.res = "null") => last.soft

\* C8: an arena_alloc that fails with OOM_NULL returns NULL and leaves beg,
\* end, jmpbuf and every byte as they were.
C8_SoftFailureChangesNothing ==
  [][(last'.op = "alloc" /\ last'.res = "null") =>
       (beg' = beg /\ end' = end /\ jmpbuf' = jmpbuf /\ mem' = mem /\ pc' = pc)]_vars

C8_Witness ==
  /\ last.op = "alloc" /\ last.res = "null" /\ last.soft
  /\ last.pad > 0 /\ beg > buf /\ pc = "run"

\* C9: when the allocation of slice_grow fails during Push, by unwinding or by
\* returning NULL, the slice's data, len and cap are what they were before.
C9_FailedPushKeepsSlice ==
  (last.op = "push" /\ last.res \in {"unwound", "null"}) => slice = last.old

\* C10: a Push that succeeds on a slice that is the most recent allocation of
\* its arena leaves data unchanged; a growth allocates MAX_ALIGN more elements
\* right after the storage, copies nothing, and the slice is still at the tip.
C10_GrowthInPlace ==
  [][(/\ last'.op = "push" /\ last'.res = "ok"
      /\ slice.cap > 0
      /\ slice.data + slice.cap * ElemSize = beg) =>
       /\ slice'.data = slice.data
       /\ slice'.data + slice'.cap * ElemSize = beg'
       /\ beg' = beg + (IF last'.grew THEN MAX_ALIGN * ElemSize ELSE 0)
       /\ \A a \in Addr :
            (a >= slice.data /\ a < slice.data + slice.len * ElemSize) => mem'[a] = mem[a]
    ]_vars

C10_Witness ==
  /\ last.op = "push" /\ last.res = "ok" /\ last.branch = "inplace"
  /\ slice.cap = 3 * MAX_ALIGN

C12_CapacityGrows ==
  (last.op = "push" /\ last.res = "ok" /\ last.branch = "moved")
    => /\ slice.cap >= (3 * last.old.cap) \div 2
       /\ slice.cap > last.old.cap

\* C13: a Push on a slice with cap == 0, len == n > 0 and data outside the
\* arena allocates n + grow elements at the aligned frontier, copies the n
\* elements there in order, rebinds data to that storage, and leaves every
\* byte outside the arena as it was.
C13_FirstGrowthCopiesIn ==
  [][(last'.op = "push" /\ last'.res = "ok" /\ slice.cap = 0 /\ slice.len > 0
        /\ InExt(slice.data) /\ InExt(slice.data + ElemSize * slice.len - 1))
       => /\ slice'.data = RoundUp(beg, ElemAlign)
          /\ slice'.cap = slice.len + MAX_ALIGN
          /\ slice'.len = slice.len + 1
          /\ beg' = slice'.data + ElemSize * slice'.cap
          /\ \A i \in 0 .. (ElemSize * slice.len - 1) :
               mem'[slice'.data + i] = mem[slice.data + i]
          /\ \A a \in Addr : InExt(a) => mem'[a] = mem[a]]_vars

C13_Witness ==
  /\ last.op = "push" /\ last.res = "ok" /\ last.branch = "first"
  /\ last.old.cap = 0 /\ last.old.len = 2 /\ InExt(last.old.data)
  /\ slice.data >= buf /\ slice.len = 3
  /\ mem[slice.data] = mem[last.old.data]

\* C14: astrconcat(arena, A, B) returns a string of length A.len + B.len whose
\* bytes are those A had followed by those B had, wherever A and B live.
C14_ConcatIsAThenB ==
  [][(last'.op = "astrconcat" /\ last'.res = "ok")
       => LET A == last'.args[1]
              B == last'.args[2]
          IN  /\ str'.len = A.len + B.len
              /\ \A i \in 0 .. (A.len - 1) : mem'[str'.data + i] = mem[A.data + i]
              /\ \A i \in 0 .. (B.len - 1) :
                   mem'[str'.data + A.len + i] = mem[B.data + i]]_vars

\* C15: astrconcat(arena, head, tail) leaves every byte of
\* [tail.data, tail.data + tail.len) as it was.
C15_ConcatKeepsTail ==
  [][(last'.op = "astrconcat")
       => LET tail == last'.args[2]
          IN  \A i \in 0 .. (tail.len - 1) :
                mem'[tail.data + i] = mem[tail.data + i]]_vars

\* C16: astrclone(arena, s) returns s itself and changes neither the frontier
\* nor a byte when s is empty or ends at the frontier; in every other case it
\* returns len bytes allocated at the frontier, which advances by s.len, and
\* these bytes are the ones s had.
C16_CloneNoOpOrAtTip ==
  [][(last'.op = "astrclone")
       => LET s == last'.args[1]
          IN  IF s.len = 0 \/ s.data + s.len = beg
              THEN last'.res = "ok" /\ str' = s /\ beg' = beg /\ mem' = mem
              ELSE last'.res = "ok"
                     => /\ str'.len = s.len
                        /\ str'.data = beg
                        /\ beg' = beg + s.len
                        /\ \A i \in 0 .. (s.len - 1) : mem'[str'.data + i] = mem[s.data + i]
                        /\ \A a \in Addr : (a < beg \/ a >= beg') => mem'[a] = mem[a]]_vars

C16_Witness ==
  /\ last.op = "astrclone" /\ last.res = "ok"
  /\ last.args[1].len > 0 /\ last.args[1].data >= buf
  /\ str = last.args[1] /\ str.data + str.len = beg
  /\ left.strop = 0

\* C17: astrfmt whose output is n bytes long succeeds whenever n bytes remain
\* free, and then returns a string of length n that ends at the frontier,
\* which has advanced by exactly n.
C17_FmtTakesExactlyN ==
  [][(last'.op = "astrfmt")
       => LET n == last'.args[1]
          IN  /\ (end - beg >= n) => last'.res = "ok"
              /\ last'.res = "ok"
                   => (str'.len = n /\ str'.data + n = beg' /\ beg' = beg + n)]_vars

\* The bytes of a string view
Bytes(m, s) == [i \in 1 .. s.len |-> m[s.data + i - 1]]

\* The tokens the loop body has been given, each as its bytes
Yielded == [k \in 1 .. Len(it.out) |-> Bytes(mem, it.out[k])]

\* The substrings of w delimited by the occurrences of sep
RECURSIVE SplitRef(_, _)
SplitRef(w, sep) ==
  LET n == Len(sep)
      hits == {i \in 1 .. (Len(w) - n + 1) : SubSeq(w, i, i + n - 1) = sep}
      first == CHOOSE i \in hits : \A i2 \in hits : i <= i2
  IN  IF hits = {} THEN <<w>>
      ELSE <<SubSeq(w, 1, first - 1)>> \o SplitRef(SubSeq(w, first + n, Len(w)), sep)

\* C18: the loop over astr_split yields exactly the substrings delimited by
\* the occurrences of the separator, an empty one between adjacent separators;
\* "a,b,,c" by "," yields "a", "b", "", "c".
C18_SplitYieldsFields ==
  (it.kind = "sep" /\ it.state = "done" /\ it.input.len > 0)
    => Yielded = SplitRef(Bytes(mem, it.input), it.sep)

\* The string that is split ends with a delimiter
EndsWithDelimiter ==
  LET w == Bytes(mem, it.input)
  IN  IF it.kind = "sep"
      THEN Len(w) >= Len(it.sep) /\ SubSeq(w, Len(w) - Len(it.sep) + 1, Len(w)) = it.sep
      ELSE Len(w) > 0 /\ w[Len(w)] \in it.sep

\* C19: when the string ends with a delimiter, the tokens of astr_split and of
\* astr_split_by_char end with an empty token ("a,b," yields "a", "b", "").
C19_TrailingDelimiterYieldsEmpty ==
  (it.kind \in {"sep", "char"} /\ it.state = "done" /\ EndsWithDelimiter)
    => (Len(it.out) > 0 /\ it.out[Len(it.out)].len = 0)

\* The maximal non-empty substrings of w without a character of charset
RECURSIVE FieldsRef(_, _)
FieldsRef(w, charset) ==
  IF w = <<>> THEN <<>>
  ELSE IF w[1] \in charset THEN FieldsRef(Tail(w), charset)
  ELSE LET free == {n \in 1 .. Len(w) : \A i \in 1 .. n : w[i] \notin charset}
           k == CHOOSE n \in free : \A n2 \in free : n >= n2
       IN  <<SubSeq(w, 1, k)>> \o FieldsRef(SubSeq(w, k + 1, Len(w)), charset)

\* The same with an empty substring before a leading and after a trailing
\* delimiter
RunSplitRef(w, charset) ==
  (IF w # <<>> /\ w[1] \in charset THEN << <<>> >> ELSE <<>>)
    \o FieldsRef(w, charset)
    \o (IF w # <<>> /\ w[Len(w)] \in charset THEN << <<>> >> ELSE <<>>)

\* C20: the loop over astr_split_by_char yields the maximal delimiter-free
\* substrings in order, a run of delimiters between two tokens counting as one
\* separator, with or without the empty substrings at the two ends of the
\* string; every token is a view into the bytes of the input.
C20_SplitByCharYieldsRuns ==
  (it.kind = "char" /\ it.state = "done")
    => /\ \/ Yielded = FieldsRef(Bytes(mem, it.input), it.sep)
          \/ Yielded = RunSplitRef(Bytes(mem, it.input), it.sep)
       /\ \A k \in 1 .. Len(it.out) :
            /\ it.out[k].data >= it.input.data
            /\ it.out[k].data + it.out[k].len <= it.input.data + it.input.len

\* C21: arena_free(ptr, size, arena) sets beg to ptr exactly when ptr is not
\* NULL and ptr + size == beg, and otherwise leaves beg as it was; it never
\* moves beg forward and changes nothing else of the arena.
C21_FreeRetractsOnlyAtTip ==
  [][(last'.op = "free")
       => /\ beg' = (IF last'.ptr # NULL /\ last'.ptr + last'.size = beg
                     THEN last'.ptr ELSE beg)
          /\ beg' <= beg
          /\ end' = end /\ jmpbuf' = jmpbuf /\ mem' = mem /\ pc' = pc]_vars

C21_Witness ==
  /\ last.op = "free" /\ last.ptr # NULL /\ beg = last.ptr
  /\ \E b \in blocks : b[1] < beg
  /\ left.free = 0

\* C22: an allocation made through a scratch arena never changes the parent's
\* frontier, and once the scratch scope has ended the parent's limit is the
\* one it had before the scratch was derived (the one arena creation gave it),
\* so the bytes the scratch used are free for the parent again.
C22_ScratchGivesBack ==
  [][/\ (last'.op = "alloc" /\ last'.who = "scratch" /\ last'.res \in {"ok", "null"})
          => beg' = beg
     /\ (last'.op = "endscratch") => end' = ArenaInitState(buf, ArenaSize).end]_vars

\* Two blocks share a byte
Overlap(p, n, q, m) == n > 0 /\ m > 0 /\ p < q + m /\ q < p + n

\* C23: with a parent arena and its scratch child from getscratch, whatever
\* the order of the allocations on the two, the parent's frontier never passes
\* the child's, no block returned to the parent overlaps a block returned to
\* the child, and a child allocation made once the frontiers have met fails.
C23_FrontiersNeverCross ==
  /\ beg <= end
  /\ \A p \in blocks, q \in blocks :
       (p[3] = "parent" /\ q[3] = "scratch") => ~Overlap(p[1], p[2], q[1], q[2])
  /\ (last.op = "alloc" /\ last.who = "scratch" /\ last.was <= last.lim)
       => last.res # "ok"

RECURSIVE Fib(_)
Fib(i) == IF i < 2 THEN i ELSE Fib(i - 2) + Fib(i - 1)

\* C25: from an empty slice whose storage of FibCap elements was allocated at
\* the tip, the Push calls that store the Fibonacci sequence all succeed;
\* afterwards the slice holds FibPushes elements, element i is Fib(i), and the
\* capacity has grown past FibCap.
C25_FibonacciPushes ==
  /\ (last.op = "push" /\ last.old.cap >= FibCap) => last.res = "ok"
  /\ (last.op = "push" /\ slice.len = FibPushes)
       => /\ \A i \in 0 .. (FibPushes - 1) : mem[slice.data + ElemSize * i] = Fib(i)
          /\ slice.cap > FibCap

\* C26: whenever a scratch scope opened by PushArena is left, by PopArena in
\* LIFO order, by an early return or by an OOM unwind to the checkpoint, the
\* limit of the arena it was carved from is what it was before the push.
C26_EndRestoredOnEveryExit ==
  [][(Len(scr'.stack) < Len(scr.stack) /\ pc' = "run")
       => IF scr'.stack = <<>> THEN end' = scr.stack[1].was
          ELSE scr'.stack[Len(scr'.stack)].end = scr.stack[Len(scr.stack)].was]_vars

\* C27: after every Push that returns, 0 < len <= cap and the slot returned,
\* data + (len - 1) * size, lies inside the storage [data, data + cap * size),
\* also for a slice with cap == len == 1 that is no longer at the tip.
C27_SlotInsideStorage ==
  (last.op = "push" /\ last.res = "ok")
    => /\ 0 < slice.len /\ slice.len <= slice.cap
       /\ last.ptr = slice.data + (slice.len - 1) * ElemSize
       /\ slice.data <= last.ptr
       /\ last.ptr + ElemSize <= slice.data + slice.cap * ElemSize

\* C28: every non-empty string that astrclone or astrconcat returns for
\* arguments lying in the allocated part of the arena lies in the allocated
\* part itself when the call returns: data + len <= beg, also when head and
\* tail alias or tail is a suffix of a head at the tip.
C28_ResultBelowFrontier ==
  [][(/\ last'.op \in {"astrclone", "astrconcat"} /\ last'.res = "ok"
      /\ str'.len > 0 /\ str'.data >= buf
      /\ \A k \in 1 .. Len(last'.args) :
           last'.args[k].len > 0 => last'.args[k].data + last'.args[k].len <= beg)
       => str'.data + str'.len <= beg']_vars

\* C29: CC_CMPR returns 0 for two keys exactly when astrcmp reports them
\* equal, and two keys for which it returns 0 have the same astrhash.
C29_ComparatorAgrees ==
  (last.op = "CC_CMPR")
    => /\ (last.cmpr = 0) <=> last.equal
       /\ (last.cmpr = 0) => last.hash_1 = last.hash_2

\* C30: ArenaOOM takes its jump buffer from the arena: when it establishes a
\* checkpoint, jmpbuf is the frontier rounded up to the alignment of a pointer
\* and the frontier has advanced past the JBLEN pointers of the buffer; when
\* the arena cannot hold the buffer, ArenaOOM is true at once, jmpbuf is NULL
\* and the frontier is where it was.
C30_JmpbufFromArena ==
  [][(last'.op = "ArenaOOM")
       => /\ IF last'.res = "ok"
             THEN /\ jmpbuf' # NULL
                  /\ jmpbuf' = RoundUp(beg, PtrSize)
                  /\ beg' = jmpbuf' + JBLEN * PtrSize
                  /\ beg' <= end
                  /\ cpBeg' = beg'
             ELSE /\ last'.res = "null"
                  /\ jmpbuf' = NULL
                  /\ beg' = beg
                  /\ pc' = pc
          /\ (RoundUp(beg, PtrSize) + JBLEN * PtrSize > end) => last'.res # "ok"
          /\ end' = end]_vars

C30_Witness ==
  /\ last.op = "ArenaOOM" /\ last.res = "null" /\ jmpbuf = NULL
  /\ cpBeg # NULL /\ beg = last.was /\ beg >= cpBeg
  /\ pc = "run"

====
